---- MODULE Spec2Model ----
(***************************************************************************)
(* Pairing and presence-aware event relay of the PlayTogether server       *)
(* (server/controllers/socketController.js): the Presence Directory        *)
(* (activeConnections), the room bookkeeping (parentChildRooms), the       *)
(* socket.io rooms family_<parentId>, and the handlers registered by       *)
(* handleConnection.                                                       *)
(***************************************************************************)
EXTENDS Integers, Sequences, FiniteSets, TLC

\* ---------------------------------------------------------------- bounds
\* Sockets opened over the whole run (socket ids are 1..MaxConn).
MaxConn == 3
\* Parent playback commands received over the whole run.
MaxCmds == 1
\* Longest catalog the next / previous resolution is enumerated over.
MaxCatalog == 3
\* Most commands handled in one viewing session (SpecSession).
MaxSessionCmds == 3
\* Most pairWithParent requests in flight at once.
MaxPairRequests == 2

\* ------------------------------------------------------- static universe
Parents  == {"P1", "P2"}
Children == {"C1", "C2"}
Users    == Parents \cup Children
NoUser   == "null"

\* User.role: enum parent | child, fixed per account.
Role(u) == IF u \in Parents THEN "parent" ELSE "child"

\* The Video collection: uploadedBy and isActive of each document.
Videos == {"v1", "v2", "v3", "v4"}
NoVideo == "none"
UploadedBy(v) == IF v \in {"v1", "v2", "v3"} THEN "P1" ELSE "P2"
IsActive(v) == v \in {"v1", "v2", "v3"}

\* The documents in descending createdAt.
NewestFirst == <<"v1", "v2", "v3", "v4">>

\* The { title, url, duration } a relayed command carries for a document.
Descriptor(v) == [title |-> <<"title", v>>, url |-> <<"url", v>>,
                  duration |-> <<"duration", v>>]
NoDescriptor == [title |-> <<>>, url |-> <<>>, duration |-> <<>>]

\* A payload field the client left out, or a null timestamp.
NoTime == -1
\* The currentTime values a video_play payload may carry.
Times == {NoTime, 5}

\* (variant: the query does not filter on isActive)
CatalogWithInactive(p) ==
  LET Mine(v) == UploadedBy(v) = p
  IN  SelectSeq(NewestFirst, Mine)

\* Video.find({uploadedBy, isActive: true}).sort({createdAt: -1})
Catalog(p) ==
  LET Mine(v) == UploadedBy(v) = p /\ IsActive(v)
  IN  SelectSeq(NewestFirst, Mine)

\* `family_${id}`: a room is named by the user id it is derived from.
RoomId(u) == <<"family", u>>
RoomIds == {RoomId(u) : u \in Users}

VARIABLES
  pairedWith,         \* User.pairedWith of every account (the database)
  sockets,            \* socket id -> socket.user as attached at authentication
  connected,          \* ids of the sockets currently connected
  activeConnections,  \* the Map userId -> {socketId, user, connectedAt}
  parentChildRooms,   \* the Map userId -> roomId
  rooms,              \* socket.io room -> member socket ids
  cmdLog,             \* per playback command received: issuer, partner absent
  pending,            \* commands awaiting their catalog lookup (async handlers)
  playCount,          \* Video.playCount of every document
  emitted,            \* deliveries made by the last step, in emission order
  last,               \* the last step: handler, socket, command
  lastPresence,       \* per connected socket: last *_online / *_offline
  handledAtConnect,   \* per connected socket: commands handled before it
  relay,              \* per parent: the video and state its relayed commands
                      \* have put its channel in
  introduced,         \* per video: relayed video_play that brought it in as
                      \* new media
  lastCmd,            \* per connected socket: last command delivered to it
  pairRequests,       \* pairWithParent requests between their reads and
                      \* their saves
  hook                \* the parent app's playlist hook: its props, its state
                      \* and what its last operation emitted

vars == <<hook, pairRequests, pairedWith, sockets, connected, activeConnections, parentChildRooms,
          rooms, cmdLog, pending, playCount, emitted, last, lastPresence,
          handledAtConnect, relay, introduced, lastCmd>>

\* What the server's deliveries and relays add up to, as seen from outside.
History == <<relay, introduced, lastCmd>>

\* ---------------------------------------------------------------- helpers
Min(S) == CHOOSE x \in S : \A y \in S : x <= y

RECURSIVE SeqOf(_)
SeqOf(S) == IF S = {} THEN <<>> ELSE <<Min(S)>> \o SeqOf(S \ {Min(S)})

\* The device counts of an event that carries none.
NoCount == -1

\* An outbound event as delivered to one socket.
Msg(ev, userName, action, videoId, cmd, isOnline) ==
  [to |-> 0, ev |-> ev, userName |-> userName, action |-> action,
   videoId |-> videoId, cmd |-> cmd, isOnline |-> isOnline,
   currentTime |-> NoTime, video |-> NoDescriptor, lastSeen |-> NoTime,
   pairedDevicesOnline |-> NoCount, totalPairedDevices |-> NoCount]

Presence(ev, userName) == Msg(ev, userName, "none", NoVideo, 0, FALSE)
Plain(ev) == Msg(ev, NoUser, "none", NoVideo, 0, FALSE)
Control(action, videoId, cmd) ==
  Msg("video_control", NoUser, action, videoId, cmd, FALSE)

\* io.to(socketId).emit / socket.emit: the packet reaches the socket whose id
\* it is, if that socket is connected, and is dropped otherwise.
ToSocket(conn, sid, m) ==
  IF sid \in conn THEN <<[m EXCEPT !.to = sid]>> ELSE <<>>

\* (variant: a member is handed the packet once per join it made)
ToRoomTwice(rm, sender, room, m) ==
  LET members == SeqOf(rm[room] \ {sender})
  IN  [i \in 1..(2 * Len(members)) |->
         [m EXCEPT !.to = members[(i + 1) \div 2]]]

\* socket.to(roomId).emit: every member of the room except the sender.
ToRoom(rm, sender, room, m) ==
  LET members == SeqOf(rm[room] \ {sender})
  IN  [i \in 1..Len(members) |-> [m EXCEPT !.to = members[i]]]

\* (variant: an existing entry is kept, first connection wins)
MapSetIfAbsent(map, key, entry) ==
  IF key \in DOMAIN map THEN map
  ELSE [k \in DOMAIN map \cup {key} |-> IF k = key THEN entry ELSE map[k]]

\* Map.set(key, entry)
MapSet(map, key, entry) ==
  [k \in DOMAIN map \cup {key} |-> IF k = key THEN entry ELSE map[k]]

\* Map.delete(key)
MapDelete(map, key) == [k \in DOMAIN map \ {key} |-> map[k]]

EmptyMap == [k \in {} |-> 0]

\* The online / offline event announcing a user of the given role.
OnlineEvent(role) ==
  IF role = "parent" THEN "parent_online" ELSE "child_online"
OfflineEvent(role) ==
  IF role = "parent" THEN "parent_offline" ELSE "child_offline"

IsOnlineEv(ev)  == ev \in {"parent_online", "child_online"}
IsOfflineEv(ev) == ev \in {"parent_offline", "child_offline"}

\* What each receiving socket remembers of the presence events delivered.
RECURSIVE ApplyPresence(_, _)
ApplyPresence(lp, ems) ==
  IF ems = <<>> THEN lp
  ELSE LET m == Head(ems)
           lp1 == IF IsOnlineEv(m.ev) THEN [lp EXCEPT ![m.to] = "online"]
                  ELSE IF IsOfflineEv(m.ev) THEN [lp EXCEPT ![m.to] = "offline"]
                  ELSE lp
       IN  ApplyPresence(lp1, Tail(ems))

\* The _id the child reads off a descriptor: the server's descriptors carry
\* title, url and duration only, so the read yields undefined for each.
DescriptorId(d) == "undefined"

\* The child's video_control handler: the child's current video after the
\* command (cur: its current video, NoDescriptor for none). The switch has the
\* cases play, pause, seek, volume, stop, fullscreen and repeat, and no default.
HandleControl(cur, m) ==
  IF m.action = "play"
  THEN (IF m.video # NoDescriptor
           /\ (cur = NoDescriptor \/ DescriptorId(m.video) # DescriptorId(cur))
        THEN m.video ELSE cur)
  ELSE IF m.action = "stop" THEN NoDescriptor
  ELSE cur

\* What the child can be showing when a command arrives.
ChildVideos == {NoDescriptor} \cup {Descriptor(v) : v \in Videos}

\* The last command each receiving socket was handed as a video_control, the
\* action it carried, and the current video of the app on that socket after
\* its handler ran.
NoCmd == [cmd |-> 0, action |-> "none", video |-> NoDescriptor]
RECURSIVE ApplyControl(_, _)
ApplyControl(lc, ems) ==
  IF ems = <<>> THEN lc
  ELSE LET m == Head(ems)
       IN  ApplyControl(IF m.ev = "video_control"
                        THEN [lc EXCEPT ![m.to] =
                                [cmd |-> m.cmd, action |-> m.action,
                                 video |-> HandleControl(lc[m.to].video, m)]]
                        ELSE lc, Tail(ems))

\* A channel with no active video.
Idle == [videoId |-> NoVideo, state |-> "Idle"]

\* A relayed video_play of v brings in new media unless v is the channel's
\* video already; it is a resume when v is the video paused on the channel.
IsNewMedia(ch, v) == ch.videoId # v
IsResume(ch, v) == ch.videoId = v /\ ch.state = "Paused"

\* The channel after a relayed command (v: the video the relayed
\* video_control names).
Transition(ch, action, v) ==
  IF action = "play" THEN [videoId |-> v, state |-> "Playing"]
  ELSE IF ch.state = "Idle" THEN ch
  ELSE IF action = "pause"
       THEN (IF ch.state = "Playing" THEN [ch EXCEPT !.state = "Paused"] ELSE ch)
  ELSE IF action = "stop" THEN Idle
  ELSE IF action \in {"next", "previous"}
       THEN [videoId |-> v, state |-> "Playing"]
  ELSE ch

SocketIds == 1..Len(sockets)
PendingIds == {c.id : c \in pending}
Handled == (1..Len(cmdLog)) \ PendingIds

\* ------------------------------------------------------------------- Init
\* The accounts as registered when the server starts: P2 and C2 have already
\* paired, P1 and C1 have not (pairedWith defaults to null).
InitialPairedWith(u) ==
  IF u = "P2" THEN "C2" ELSE IF u = "C2" THEN "P2" ELSE NoUser

\* The payload of a received event, as far as the handlers read it.
Req(action, videoId, currentTime) ==
  [action |-> action, videoId |-> videoId, currentTime |-> currentTime]
NoReq == Req("none", NoVideo, NoTime)

\* ------------------------------------------ the parent app's playlist hook
\* useVideoPlaylist: the props socket, isConnected and childConnected, the
\* state currentVideo, isFullscreen and isRepeat, and the last operation with
\* the events it emitted on the socket.
InitialHook ==
  [socket |-> FALSE, isConnected |-> FALSE, childConnected |-> FALSE,
   currentVideo |-> NoVideo, isFullscreen |-> FALSE, isRepeat |-> FALSE,
   op |-> "init", out |-> <<>>]

\* An event the hook emits.
Emit(ev, v) == [ev |-> ev, videoId |-> v]

\* const canControl = isConnected && childConnected && socket
CanControl(h) == h.isConnected /\ h.childConnected /\ h.socket

\* Everything outside the hook.
Server == <<pairRequests, pairedWith, sockets, connected, activeConnections,
            parentChildRooms, rooms, cmdLog, pending, playCount, emitted, last,
            lastPresence, handledAtConnect, History>>

\* An operation of the hook: its new state and what it emitted.
HookStep(op, h, out) ==
  /\ hook' = [h EXCEPT !.op = op, !.out = out]
  /\ UNCHANGED Server

\* The props change: the socket context connects or disconnects, the child
\* is reported online or offline.
HookProps(sock, isConn, child) ==
  HookStep("props", [hook EXCEPT !.socket = sock, !.isConnected = isConn,
                                 !.childConnected = child], <<>>)

HookPlayVideo(v) ==
  IF ~CanControl(hook) THEN HookStep("playVideo", hook, <<>>)
  ELSE HookStep("playVideo",
                [hook EXCEPT !.currentVideo = v, !.isFullscreen = FALSE],
                (IF hook.currentVideo # NoVideo
                 THEN <<Emit("video_stop", hook.currentVideo)>> ELSE <<>>)
                \o <<Emit("video_play", v)>>)

\* pauseVideo, resumeVideo, changeVolume and seekVideo: one event about the
\* current video, if the hook can control and has one.
HookControl(op, ev) ==
  IF ~CanControl(hook) \/ hook.currentVideo = NoVideo
  THEN HookStep(op, hook, <<>>)
  ELSE HookStep(op, hook, <<Emit(ev, hook.currentVideo)>>)

\* stopVideo: if (!socket || !currentVideo) return
HookStopVideo ==
  IF ~hook.socket \/ hook.currentVideo = NoVideo
  THEN HookStep("stopVideo", hook, <<>>)
  ELSE HookStep("stopVideo",
                [hook EXCEPT !.currentVideo = NoVideo, !.isFullscreen = FALSE],
                <<Emit("video_stop", hook.currentVideo)>>)

HookToggleFullscreen ==
  IF ~CanControl(hook) \/ hook.currentVideo = NoVideo
  THEN HookStep("toggleFullscreen", hook, <<>>)
  ELSE HookStep("toggleFullscreen",
                [hook EXCEPT !.isFullscreen = ~hook.isFullscreen],
                <<Emit("video_fullscreen", hook.currentVideo)>>)

HookToggleRepeat ==
  IF ~CanControl(hook) THEN HookStep("toggleRepeat", hook, <<>>)
  ELSE HookStep("toggleRepeat", [hook EXCEPT !.isRepeat = ~hook.isRepeat],
                IF hook.socket /\ hook.currentVideo # NoVideo
                THEN <<Emit("video_repeat", hook.currentVideo)>> ELSE <<>>)

\* The operations that emit one event about the current video.
HookControls ==
  {<<"pauseVideo", "video_pause">>, <<"resumeVideo", "video_play">>,
   <<"changeVolume", "video_volume">>, <<"seekVideo", "video_seek">>}

\* What a client declares about itself in the handshake and in the payloads
\* of join_room, user_online and user_offline: {userId, role, pairedWith}.
NoDeclared == [userId |-> NoUser, role |-> "none", pairedWith |-> NoUser]

\* The declarations a client may send: none, or one naming another user, role
\* and partner than its credential resolves to.
Declared ==
  {NoDeclared,
   [userId |-> "P1", role |-> "parent", pairedWith |-> "C2"],
   [userId |-> "C2", role |-> "child", pairedWith |-> "P1"]}

NoStep(op) == [op |-> op, sock |-> 0, cmd |-> 0, result |-> "none",
               absent |-> FALSE, req |-> NoReq, declared |-> NoDeclared]

Init ==
  /\ pairedWith = [u \in Users |-> InitialPairedWith(u)]
  /\ sockets = <<>>
  /\ connected = {}
  /\ activeConnections = EmptyMap
  /\ parentChildRooms = EmptyMap
  /\ rooms = [r \in RoomIds |-> {}]
  /\ cmdLog = <<>>
  /\ pending = {}
  /\ playCount = [v \in Videos |-> 0]
  /\ emitted = <<>>
  /\ last = NoStep("init")
  /\ lastPresence = <<>>
  /\ handledAtConnect = <<>>
  /\ relay = [p \in Parents |-> Idle]
  /\ introduced = [v \in Videos |-> 0]
  /\ lastCmd = <<>>
  /\ pairRequests = {}
  /\ hook = InitialHook

\* The record of a step that only emits, by a client that declared h.
StepDeclaring(op, s, h, ems) ==
  /\ emitted' = ems
  /\ last' = [NoStep(op) EXCEPT !.sock = s, !.declared = h]
  /\ lastPresence' = ApplyPresence(lastPresence, ems)

\* The record of a step that only emits.
Step(op, s, ems) == StepDeclaring(op, s, NoDeclared, ems)

\* The declaration of the app: what its own copy of the user record holds.
Declaration(u) == [userId |-> u, role |-> Role(u), pairedWith |-> pairedWith[u]]

\* (variant: a handler takes the user from what the client declared)
HandlerUserDeclared(id, h) ==
  IF h = NoDeclared THEN id
  ELSE [user |-> h.userId, role |-> h.role, pairedWith |-> h.pairedWith]

\* const user = socket.user: the user a handler works with is the one
\* authenticateSocket attached, whatever the client declared.
HandlerUser(id, h) == id

\* ------------------------------------------------- pairing (REST endpoint)
\* What the pairing endpoint never touches.
Connections == <<hook, sockets, connected, activeConnections, parentChildRooms,
                 rooms, cmdLog, pending, playCount, handledAtConnect, History>>

\* pairWithParent: the child redeems the parent's code; both must be unpaired.
PairWithParent(c, p) ==
  /\ Role(p) = "parent"
  /\ Role(c) = "child"
  /\ pairedWith[p] = NoUser
  /\ pairedWith[c] = NoUser
  /\ pairedWith' = [pairedWith EXCEPT ![p] = c, ![c] = p]
  /\ Step("pairWithParent", 0, <<>>)
  /\ UNCHANGED <<hook, pairRequests>>
  /\ UNCHANGED <<sockets, connected, activeConnections, parentChildRooms,
                 rooms, cmdLog, pending, playCount, handledAtConnect>>
  /\ UNCHANGED History

\* pairWithParent statement by statement. A request of user c with the code
\* of parent p: User.findOne({pairingCode, role: "parent"}) resolves and the
\* request holds the parent document as it was read.
PairFindParent(c, p) ==
  /\ Role(p) = "parent"
  /\ Cardinality(pairRequests) < MaxPairRequests
  /\ \A r \in pairRequests : r.child # c \/ r.parent # p
  /\ pairRequests' = pairRequests \cup
       {[child |-> c, parent |-> p, stage |-> "find_child",
         parentPairedWith |-> pairedWith[p]]}
  /\ Step("pair_find_parent", 0, <<>>)
  /\ UNCHANGED <<pairedWith, Connections>>

\* User.findById(childId) resolves; the role and already-paired checks run on
\* the two documents as read, and answer 400 or go on to the saves.
PairFindChild(r) ==
  /\ r \in pairRequests
  /\ r.stage = "find_child"
  /\ pairRequests' =
       IF \/ Role(r.child) # "child"
          \/ r.parentPairedWith # NoUser
          \/ pairedWith[r.child] # NoUser
       THEN pairRequests \ {r}
       ELSE (pairRequests \ {r}) \cup {[r EXCEPT !.stage = "save_parent"]}
  /\ Step("pair_find_child", 0, <<>>)
  /\ UNCHANGED <<pairedWith, Connections>>

\* parent.pairedWith = child._id; await parent.save()
PairSaveParent(r) ==
  /\ r \in pairRequests
  /\ r.stage = "save_parent"
  /\ pairedWith' = [pairedWith EXCEPT ![r.parent] = r.child]
  /\ pairRequests' =
       (pairRequests \ {r}) \cup {[r EXCEPT !.stage = "save_child"]}
  /\ Step("pair_save_parent", 0, <<>>)
  /\ UNCHANGED Connections

\* child.pairedWith = parent._id; await child.save(); res.status(200)
PairSaveChild(r) ==
  /\ r \in pairRequests
  /\ r.stage = "save_child"
  /\ pairedWith' = [pairedWith EXCEPT ![r.child] = r.parent]
  /\ pairRequests' = pairRequests \ {r}
  /\ Step("pair_save_child", 0, <<>>)
  /\ UNCHANGED Connections

\* ------------------------------------------------------------- connection
\* The room handlePairing / join_room joins the socket to, if any.
JoinedRoom(id) ==
  IF id.pairedWith = NoUser THEN {}
  ELSE IF id.role = "parent" THEN {RoomId(id.user)}
  ELSE {RoomId(id.pairedWith)}

Join(rm, s, id) == [r \in RoomIds |-> IF r \in JoinedRoom(id)
                                      THEN rm[r] \cup {s} ELSE rm[r]]

\* (variant: the partner is told, the connecting socket is not, as in the
\* earlier revision of handlePairing)
PairingEmitsNoEcho(ac, conn, socks, s, id) ==
  IF id.pairedWith = NoUser \/ id.pairedWith \notin DOMAIN ac THEN <<>>
  ELSE ToSocket(conn, ac[id.pairedWith].socketId,
                Presence(OnlineEvent(id.role), id.user))

\* (variant: the commands the partner issued earlier are replayed to the
\* connecting socket after the announcement)
PairingEmitsReplay(ac, conn, socks, s, id) ==
  LET ks == SeqOf({k \in Handled : cmdLog[k].by = id.pairedWith})
      replay == [i \in 1..Len(ks) |->
                   [Control("play", NoVideo, ks[i]) EXCEPT !.to = s]]
  IN  IF id.pairedWith = NoUser \/ id.pairedWith \notin DOMAIN ac THEN replay
      ELSE ToSocket(conn, ac[id.pairedWith].socketId,
                    Presence(OnlineEvent(id.role), id.user))
           \o ToSocket(conn, s,
                       Presence(IF id.role = "parent" THEN "child_online"
                                ELSE "parent_online",
                                socks[ac[id.pairedWith].socketId].user))
           \o replay

\* (variant: a user whose partner has no directory entry is sent an error)
PairingEmitsAbsentError(ac, conn, socks, s, id) ==
  IF id.pairedWith = NoUser THEN <<>>
  ELSE IF id.pairedWith \notin DOMAIN ac
  THEN ToSocket(conn, s, Plain("error"))
  ELSE LET pc == ac[id.pairedWith]
           peer == socks[pc.socketId]
       IN  ToSocket(conn, pc.socketId, Presence(OnlineEvent(id.role), id.user))
           \o ToSocket(conn, s,
                       Presence(IF id.role = "parent" THEN "child_online"
                                ELSE "parent_online", peer.user))

\* handlePairing: the notifications sent when socket s with identity id
\* connects, given the directory ac after the insert.
PairingEmits(ac, conn, socks, s, id) ==
  IF id.pairedWith = NoUser \/ id.pairedWith \notin DOMAIN ac THEN <<>>
  ELSE LET pc == ac[id.pairedWith]
           peer == socks[pc.socketId]
       IN  ToSocket(conn, pc.socketId, Presence(OnlineEvent(id.role), id.user))
           \o ToSocket(conn, s,
                       Presence(IF id.role = "parent" THEN "child_online"
                                ELSE "parent_online", peer.user))

\* (variant: the socket joins its room before its user is put in the
\* directory)
ConnectStagesJoinFirst(u, h) ==
  LET s  == Len(sockets) + 1
      id == HandlerUser([user |-> u, role |-> Role(u),
                         pairedWith |-> pairedWith[u]], h)
      ac == MapSet(activeConnections, u, [socketId |-> s, connectedAt |-> s])
      rm == Join(rooms, s, id)
  IN  <<[ac |-> activeConnections, rooms |-> rm, emitted |-> <<>>],
        [ac |-> ac, rooms |-> rm, emitted |-> <<>>],
        [ac |-> ac, rooms |-> rm,
         emitted |-> PairingEmits(ac, connected \cup {s}, Append(sockets, id),
                                  s, id)]>>

\* The connection handler statement by statement: the directory, the rooms
\* and what has been emitted after activeConnections.set, after the
\* socket.join of handlePairing and after the emits of handlePairing.
ConnectStages(u, h) ==
  LET s  == Len(sockets) + 1
      id == HandlerUser([user |-> u, role |-> Role(u),
                         pairedWith |-> pairedWith[u]], h)
      ac == MapSet(activeConnections, u, [socketId |-> s, connectedAt |-> s])
      rm == Join(rooms, s, id)
  IN  <<[ac |-> ac, rooms |-> rooms, emitted |-> <<>>],
        [ac |-> ac, rooms |-> rm, emitted |-> <<>>],
        [ac |-> ac, rooms |-> rm,
         emitted |-> PairingEmits(ac, connected \cup {s}, Append(sockets, id),
                                  s, id)]>>

\* authenticateSocket followed by the connection handler.
Connect(u, h) ==
  /\ Len(sockets) < MaxConn
  /\ LET s  == Len(sockets) + 1
         id == HandlerUser([user |-> u, role |-> Role(u),
                            pairedWith |-> pairedWith[u]], h)
         socks == Append(sockets, id)
         conn == connected \cup {s}
         done == ConnectStages(u, h)[3]
         ems == done.emitted
     IN  /\ sockets' = socks
         /\ connected' = conn
         /\ activeConnections' = done.ac
         /\ rooms' = done.rooms
         /\ parentChildRooms' =
              IF id.role = "parent" /\ id.pairedWith # NoUser
              THEN MapSet(parentChildRooms, u, RoomId(u))
              ELSE parentChildRooms
         /\ emitted' = ems
         /\ last' = [NoStep("connect") EXCEPT !.sock = s, !.declared = h]
         /\ lastPresence' = ApplyPresence(Append(lastPresence, "none"), ems)
         /\ handledAtConnect' = Append(handledAtConnect, Handled)
  /\ UNCHANGED <<hook, pairRequests, pairedWith, cmdLog, pending, playCount>>
  /\ lastCmd' = Append(lastCmd, NoCmd)
  /\ UNCHANGED <<relay, introduced>>

\* The handshake tokens a client may present: a valid token of an existing
\* user (named by that user), none at all, one that jwt.verify rejects, and
\* one that verifies but whose user no longer exists.
Tokens == Users \cup {"missing", "forged", "orphan"}

\* authenticateSocket: the user attached to the socket, or none when
\* next(new Error(...)) refuses the connection.
Authenticate(tok) == IF tok \in Users THEN tok ELSE NoUser

\* (variant: the attempt is entered in the directory under the presented
\* token before it is verified)
AuthFailsRegisters(tok) ==
  /\ Authenticate(tok) = NoUser
  /\ activeConnections' =
       MapSet(activeConnections, tok, [socketId |-> 0, connectedAt |-> 0])
  /\ Step("auth_failed", 0, <<>>)
  /\ UNCHANGED <<hook, pairRequests, pairedWith, sockets, connected, parentChildRooms, rooms,
                 cmdLog, pending, playCount, handledAtConnect>>
  /\ UNCHANGED History

\* A connection attempt the middleware refuses: the connection handler is
\* never run for it.
AuthFails(tok) ==
  /\ Authenticate(tok) = NoUser
  /\ Step("auth_failed", 0, <<>>)
  /\ UNCHANGED <<hook, pairRequests, pairedWith, sockets, connected, activeConnections,
                 parentChildRooms, rooms, cmdLog, pending, playCount,
                 handledAtConnect>>
  /\ UNCHANGED History

\* The offline notification handleDisconnection / user_offline sends.
OfflineEmits(ac, conn, id) ==
  IF id.pairedWith = NoUser \/ id.pairedWith \notin DOMAIN ac THEN <<>>
  ELSE ToSocket(conn, ac[id.pairedWith].socketId,
                Presence(OfflineEvent(id.role), id.user))

\* (variant: the room mapping is left as it is)
RoomsAfterDisconnectKept(pcr, id) == pcr

\* handleDisconnection, "Clean up room mapping".
RoomsAfterDisconnect(pcr, id) ==
  IF id.role = "parent" THEN MapDelete(pcr, id.user) ELSE pcr

\* The transport closes socket s (it leaves its rooms), then the
\* "disconnect" handler runs handleDisconnection.
Disconnect(s) ==
  /\ s \in connected
  /\ LET id == sockets[s]
         conn == connected \ {s}
         ac == MapDelete(activeConnections, id.user)
     IN  /\ connected' = conn
         /\ rooms' = [r \in RoomIds |-> rooms[r] \ {s}]
         /\ activeConnections' = ac
         /\ parentChildRooms' = RoomsAfterDisconnect(parentChildRooms, id)
         /\ emitted' = OfflineEmits(ac, conn, id)
         /\ last' = [NoStep("disconnect") EXCEPT !.sock = s]
         /\ lastPresence' =
              [ApplyPresence(lastPresence, emitted') EXCEPT ![s] = "none"]
         /\ handledAtConnect' = [handledAtConnect EXCEPT ![s] = {}]
  /\ UNCHANGED <<hook, pairRequests, pairedWith, sockets, cmdLog, pending, playCount>>
  /\ lastCmd' = [lastCmd EXCEPT ![s] = NoCmd]
  /\ UNCHANGED <<relay, introduced>>

\* ---------------------------------------------------------- presence events
Others == <<hook, pairRequests, pairedWith, sockets, connected, activeConnections,
            parentChildRooms, cmdLog, pending, playCount, handledAtConnect,
            History>>

\* socket.on("join_room")
JoinRoom(s, h) ==
  /\ s \in connected
  /\ rooms' = Join(rooms, s, HandlerUser(sockets[s], h))
  /\ StepDeclaring("join_room", s, h, <<>>)
  /\ UNCHANGED Others

\* presence_confirmed {message, pairedDevicesOnline, totalPairedDevices}
Confirmed(online, total) ==
  [Msg("presence_confirmed", NoUser, "none", NoVideo, 0, online = 1)
   EXCEPT !.pairedDevicesOnline = online, !.totalPairedDevices = total]

\* (variant: a paired user is told its partner is online whether or not the
\* partner has a directory entry)
UserOnlineEmitsAssumeOnline(ac, conn, s, id) ==
  IF id.pairedWith # NoUser /\ id.pairedWith \in DOMAIN ac
  THEN ToSocket(conn, ac[id.pairedWith].socketId,
                Presence(OnlineEvent(id.role), id.user))
       \o ToSocket(conn, s, Confirmed(1, 1))
  ELSE IF id.pairedWith # NoUser THEN ToSocket(conn, s, Confirmed(1, 1))
  ELSE ToSocket(conn, s, Confirmed(0, 0))

\* socket.on("user_online")
UserOnlineEmits(ac, conn, s, id) ==
  IF id.pairedWith # NoUser /\ id.pairedWith \in DOMAIN ac
  THEN ToSocket(conn, ac[id.pairedWith].socketId,
                Presence(OnlineEvent(id.role), id.user))
       \o ToSocket(conn, s, Confirmed(1, 1))
  ELSE IF id.pairedWith # NoUser THEN ToSocket(conn, s, Confirmed(0, 1))
  ELSE ToSocket(conn, s, Confirmed(0, 0))

UserOnline(s, h) ==
  /\ s \in connected
  /\ StepDeclaring("user_online", s, h,
                   UserOnlineEmits(activeConnections, connected, s,
                                   HandlerUser(sockets[s], h)))
  /\ UNCHANGED <<rooms, Others>>

\* socket.on("user_offline")
UserOffline(s, h) ==
  /\ s \in connected
  /\ StepDeclaring("user_offline", s, h,
                   OfflineEmits(activeConnections, connected,
                                HandlerUser(sockets[s], h)))
  /\ UNCHANGED <<rooms, Others>>

\* socket.on("child_paired_success"): registered for every role.
PairedSuccessEmits(ac, conn, socks, s, id) ==
  IF id.pairedWith = NoUser \/ id.pairedWith \notin DOMAIN ac THEN <<>>
  ELSE LET pc == ac[id.pairedWith]
       IN  ToSocket(conn, pc.socketId,
                    Msg("pairing_success", id.user, "none", NoVideo, 0, FALSE))
           \o ToSocket(conn, pc.socketId, Presence("child_online", id.user))
           \o ToSocket(conn, s,
                       Presence("parent_online", socks[pc.socketId].user))

ChildPairedSuccess(s) ==
  /\ s \in connected
  /\ Step("child_paired_success", s,
          PairedSuccessEmits(activeConnections, connected, sockets, s,
                             sockets[s]))
  /\ UNCHANGED <<rooms, Others>>

\* socket.on("get_paired_status"): isOnline: !!pairedConnection
PairedStatusEmits(ac, conn, s, id) ==
  IF id.pairedWith = NoUser THEN <<>>
  ELSE ToSocket(conn, s,
                [Msg("paired_status", NoUser, "none", NoVideo, 0,
                     id.pairedWith \in DOMAIN ac)
                 EXCEPT !.lastSeen = IF id.pairedWith \in DOMAIN ac
                                     THEN ac[id.pairedWith].connectedAt
                                     ELSE NoTime])

GetPairedStatus(s) ==
  /\ s \in connected
  /\ Step("get_paired_status", s,
          PairedStatusEmits(activeConnections, connected, s, sockets[s]))
  /\ UNCHANGED <<rooms, Others>>

\* ------------------------------------------------------------ control relay
SyncActions == {"pause", "seek", "volume", "stop"}
AsyncKinds == {"play", "next", "previous"}

\* Whether the issuing identity's partner has no directory entry.
PartnerAbsent(ac, id) == id.pairedWith \notin DOMAIN ac

Logged(ac, id) == [by |-> id.user, absent |-> PartnerAbsent(ac, id)]

ErrorTo(conn, s) == ToSocket(conn, s, Plain("error"))

\* socket.on("video_pause" | "video_seek" | "video_volume" | "video_stop"),
\* registered on parent sockets only.
VideoSync(s, action, v) ==
  /\ s \in connected
  /\ sockets[s].role = "parent"
  /\ LET k == Len(cmdLog) + 1
         ems == ToRoom(rooms, s, RoomId(sockets[s].user), Control(action, v, k))
     IN  /\ cmdLog' = Append(cmdLog, Logged(activeConnections, sockets[s]))
         /\ emitted' = ems
         /\ last' = [op |-> action, sock |-> s, cmd |-> k, result |-> "ok",
                     absent |-> PartnerAbsent(activeConnections, sockets[s]),
                     req |-> Req(action, v, NoTime),
                     declared |-> NoDeclared]
         /\ lastPresence' = ApplyPresence(lastPresence, ems)
  /\ UNCHANGED <<hook, pairRequests, pairedWith, sockets, connected, activeConnections,
                 parentChildRooms, rooms, pending, playCount, handledAtConnect>>
  /\ relay' = [relay EXCEPT ![sockets[s].user] = Transition(@, action, v)]
  /\ lastCmd' = ApplyControl(lastCmd, emitted')
  /\ UNCHANGED introduced

\* socket.on("video_play" | "video_next" | "video_previous") up to the await
\* of the catalog query.
VideoAsyncBegin(s, kind, v) ==
  /\ s \in connected
  /\ sockets[s].role = "parent"
  /\ \E t \in IF kind = "play" THEN Times ELSE {NoTime} :
       LET k == Len(cmdLog) + 1
       IN  /\ cmdLog' = Append(cmdLog, Logged(activeConnections, sockets[s]))
           /\ pending' = pending \cup
                {[id |-> k, sock |-> s, kind |-> kind, videoId |-> v,
                  currentTime |-> t]}
           /\ emitted' = <<>>
           /\ last' = [op |-> "await_" \o kind, sock |-> s, cmd |-> k,
                       result |-> "none",
                       absent |-> PartnerAbsent(activeConnections, sockets[s]),
                       req |-> Req(kind, v, t), declared |-> NoDeclared]
  /\ UNCHANGED <<hook, pairRequests, pairedWith, sockets, connected, activeConnections,
                 parentChildRooms, rooms, playCount, lastPresence,
                 handledAtConnect>>
  /\ UNCHANGED History

\* (variant: an id that is not found counts as the first position)
FindIndexAbsentFirst(videos, cur) ==
  IF \E i \in 1..Len(videos) : videos[i] = cur
  THEN Min({i \in 1..Len(videos) : videos[i] = cur}) - 1
  ELSE 0

\* videos.findIndex(v => v._id.toString() === currentVideoId): 0-based, -1
\* when absent.
FindIndex(videos, cur) ==
  IF \E i \in 1..Len(videos) : videos[i] = cur
  THEN Min({i \in 1..Len(videos) : videos[i] = cur}) - 1
  ELSE -1

\* videos[i] of a JavaScript array: undefined outside 0..length-1.
At(videos, i) == IF i >= 0 /\ i < Len(videos) THEN videos[i + 1] ELSE NoVideo

\* (variant: no wrap-around, the last video is followed by itself)
NextVideoClamped(videos, cur) ==
  LET n == At(videos, FindIndex(videos, cur) + 1)
  IN  IF n # NoVideo THEN n ELSE At(videos, Len(videos) - 1)

\* videos[currentIndex + 1] || videos[0]
NextVideo(videos, cur) ==
  LET n == At(videos, FindIndex(videos, cur) + 1)
  IN  IF n # NoVideo THEN n ELSE At(videos, 0)

\* videos[currentIndex - 1] || videos[videos.length - 1]
PrevVideo(videos, cur) ==
  LET n == At(videos, FindIndex(videos, cur) - 1)
  IN  IF n # NoVideo THEN n ELSE At(videos, Len(videos) - 1)

Finish(c, result, ems) ==
  /\ pending' = pending \ {c}
  /\ emitted' = ems
  /\ last' = [op |-> c.kind, sock |-> c.sock, cmd |-> c.id, result |-> result,
              absent |-> cmdLog[c.id].absent
                           /\ PartnerAbsent(activeConnections, sockets[c.sock]),
              req |-> Req(c.kind, c.videoId, c.currentTime),
                     declared |-> NoDeclared]
  /\ lastPresence' = ApplyPresence(lastPresence, ems)
  /\ UNCHANGED <<hook, pairRequests, pairedWith, sockets, connected, activeConnections,
                 parentChildRooms, rooms, cmdLog, handledAtConnect>>
  /\ lastCmd' = ApplyControl(lastCmd, ems)

\* const { videoId, currentTime = 0 } = data, relayed with the document's
\* title, url and duration.
PlayControl(v, t, k) ==
  [Control("play", v, k) EXCEPT !.currentTime = IF t = NoTime THEN 0 ELSE t,
                                !.video = Descriptor(v)]

\* The video_control of video_next / video_previous: the resolved document.
StepControl(kind, v, k) == [Control(kind, v, k) EXCEPT !.video = Descriptor(v)]

\* What a relayed video_play of v by parent u does to u's channel.
Played(u, v) ==
  /\ relay' = [relay EXCEPT ![u] = Transition(@, "play", v)]
  /\ introduced' = IF IsNewMedia(relay[u], v)
                   THEN [introduced EXCEPT ![v] = @ + 1] ELSE introduced

\* (variant: the document is looked up by _id alone, whoever uploaded it)
VideoPlayDoneAnyOwner(c) ==
  /\ c \in pending
  /\ c.kind = "play"
  /\ playCount' = [playCount EXCEPT ![c.videoId] = @ + 1]
  /\ Finish(c, "ok", ToRoom(rooms, c.sock, RoomId(sockets[c.sock].user),
                            PlayControl(c.videoId, c.currentTime, c.id)))
  /\ Played(sockets[c.sock].user, c.videoId)

\* video_play after Video.findOne resolved: denied, or relayed and counted.
VideoPlayDone(c) ==
  /\ c \in pending
  /\ c.kind = "play"
  /\ LET u == sockets[c.sock].user
         ctl == ToRoom(rooms, c.sock, RoomId(u),
                       PlayControl(c.videoId, c.currentTime, c.id))
     IN  \/ /\ UploadedBy(c.videoId) # u
            /\ Finish(c, "denied", ErrorTo(connected, c.sock))
            /\ UNCHANGED <<playCount, relay, introduced>>
         \/ /\ UploadedBy(c.videoId) = u
            /\ playCount' = [playCount EXCEPT ![c.videoId] = @ + 1]
            /\ Finish(c, "ok", ctl)
            /\ Played(u, c.videoId)
         \/ \* video.incrementPlayCount() rejects
            /\ UploadedBy(c.videoId) = u
            /\ Finish(c, "increment_failed",
                      ctl \o ErrorTo(connected, c.sock))
            /\ Played(u, c.videoId)
            /\ UNCHANGED playCount

\* video_next / video_previous after Video.find resolved.
VideoStepDone(c) ==
  /\ c \in pending
  /\ c.kind \in {"next", "previous"}
  /\ LET u == sockets[c.sock].user
         videos == Catalog(u)
         target == IF c.kind = "next" THEN NextVideo(videos, c.videoId)
                   ELSE PrevVideo(videos, c.videoId)
     IN  IF target # NoVideo
         THEN /\ Finish(c, "ok", ToRoom(rooms, c.sock, RoomId(u),
                                        StepControl(c.kind, target, c.id)))
              /\ relay' = [relay EXCEPT ![u] = Transition(@, c.kind, target)]
         ELSE /\ Finish(c, "empty", <<>>)
              /\ UNCHANGED relay
  /\ UNCHANGED <<playCount, introduced>>

\* The catalog query of an async handler rejects: the catch block reports.
VideoLookupFails(c) ==
  /\ c \in pending
  /\ Finish(c, "lookup_failed", ErrorTo(connected, c.sock))
  /\ UNCHANGED <<playCount, relay, introduced>>

\* (variant: the report is emitted to every open connection of the parent)
ChildReportEmitsEveryConnection(ac, conn, id, ev, req) ==
  LET ps == SeqOf({s \in conn : sockets[s].user = id.pairedWith})
  IN  [i \in 1..Len(ps) |->
         [Msg(ev, id.user, req.action, req.videoId, 0, FALSE)
          EXCEPT !.to = ps[i], !.currentTime = req.currentTime]]

\* socket.on("video_control_ack" | "playback_status"), registered on child
\* sockets only.
ChildReportEmits(ac, conn, id, ev, req) ==
  IF id.pairedWith = NoUser \/ id.pairedWith \notin DOMAIN ac THEN <<>>
  ELSE ToSocket(conn, ac[id.pairedWith].socketId,
                [Msg(ev, id.user, req.action, req.videoId, 0, FALSE)
                 EXCEPT !.currentTime = req.currentTime])

\* The payloads a child reports: { action, videoId, status } of an
\* acknowledgment, { videoId, currentTime, ... } of a status update.
ReportPayloads(op) ==
  IF op = "video_control_ack"
  THEN {Req("play", "v1", NoTime), Req("pause", "v4", NoTime)}
  ELSE {Req("none", "v1", 5), Req("none", "v4", 0)}

\* (variant: the two listeners are registered whatever the role)
ChildReportAnyRole(s, op) ==
  /\ s \in connected
  /\ \E req \in ReportPayloads(op) :
       LET ems == ChildReportEmits(activeConnections, connected, sockets[s],
                                   IF op = "video_control_ack"
                                   THEN "child_status"
                                   ELSE "child_playback_status", req)
       IN  /\ emitted' = ems
           /\ last' = [NoStep(op) EXCEPT !.sock = s, !.req = req]
           /\ lastPresence' = ApplyPresence(lastPresence, ems)
  /\ UNCHANGED <<rooms, Others>>

ChildReport(s, op) ==
  /\ s \in connected
  /\ sockets[s].role = "child"
  /\ \E req \in ReportPayloads(op) :
       LET ems == ChildReportEmits(activeConnections, connected, sockets[s],
                                   IF op = "video_control_ack"
                                   THEN "child_status"
                                   ELSE "child_playback_status", req)
       IN  /\ emitted' = ems
           /\ last' = [NoStep(op) EXCEPT !.sock = s, !.req = req]
           /\ lastPresence' = ApplyPresence(lastPresence, ems)
  /\ UNCHANGED <<rooms, Others>>

\* The events setupVideoControlEvents listens to on a parent socket, and
\* those it listens to on a child socket.
ParentEvents == SyncActions \cup AsyncKinds
ChildEvents == {"video_control_ack", "playback_status"}

\* A socket sends an event setupVideoControlEvents registered no listener
\* for on it (if (user.role === ...) was false): socket.io discards it.
NoListener(s, ev) ==
  /\ s \in connected
  /\ \/ sockets[s].role = "child" /\ ev \in ParentEvents
     \/ sockets[s].role = "parent" /\ ev \in ChildEvents
  /\ emitted' = <<>>
  /\ last' = [NoStep("no_listener") EXCEPT !.sock = s,
                                           !.req = Req(ev, NoVideo, NoTime)]
  /\ UNCHANGED <<lastPresence, rooms, Others>>

\* ------------------------------------------------------------ specifications
\* Accounts, connections and their lifecycle.
Lifecycle ==
  \/ \E c \in Children, p \in Parents : PairWithParent(c, p)
  \/ \E u \in Users : Connect(u, Declaration(u))
  \/ \E s \in connected : Disconnect(s)

\* The events of setupPresenceEvents and setupConnectionEvents.
PresenceEvents ==
  \/ \E s \in connected : JoinRoom(s, Declaration(sockets[s].user))
  \/ \E s \in connected : UserOnline(s, Declaration(sockets[s].user))
  \/ \E s \in connected : UserOffline(s, Declaration(sockets[s].user))
  \/ \E s \in connected : ChildPairedSuccess(s)
  \/ \E s \in connected : GetPairedStatus(s)

\* The events of setupVideoControlEvents.
RelayEvents ==
  \/ /\ Len(cmdLog) < MaxCmds
     /\ \E s \in connected, a \in SyncActions, v \in Videos :
          VideoSync(s, a, v)
  \/ /\ Len(cmdLog) < MaxCmds
     /\ \E s \in connected, k \in AsyncKinds, v \in Videos :
          VideoAsyncBegin(s, k, v)
  \/ \E c \in pending : VideoPlayDone(c)
  \/ \E c \in pending : VideoStepDone(c)
  \/ \E c \in pending : VideoLookupFails(c)
  \/ \E s \in connected, op \in {"video_control_ack", "playback_status"} :
       ChildReport(s, op)

\* Connection attempts refused by the authentication middleware.
Admission == \E tok \in Tokens : AuthFails(tok)

\* Events sent by a socket of the role they are not registered for.
Gate == \E s \in connected, ev \in ParentEvents \cup ChildEvents :
          NoListener(s, ev)

\* The steps of the pairing endpoint.
PairingSteps ==
  \/ \E c \in Users, p \in Parents : PairFindParent(c, p)
  \/ \E r \in pairRequests : PairFindChild(r)
  \/ \E r \in pairRequests : PairSaveParent(r)
  \/ \E r \in pairRequests : PairSaveChild(r)

\* The operations of the parent app's playlist hook and the changes of its
\* props.
HookSteps ==
  \/ \E sock \in BOOLEAN, isConn \in BOOLEAN, child \in BOOLEAN :
       HookProps(sock, isConn, child)
  \/ \E v \in Videos : HookPlayVideo(v)
  \/ \E c \in HookControls : HookControl(c[1], c[2])
  \/ HookStopVideo
  \/ HookToggleFullscreen
  \/ HookToggleRepeat

Next ==
  \/ Lifecycle \/ Admission \/ PresenceEvents \/ RelayEvents \/ Gate
  \/ PairingSteps \/ HookSteps

\* The whole server.
Spec == Init /\ [][Next]_vars

\* Connects, reconnects and disconnects alone.
SpecLifecycle == Init /\ [][Lifecycle]_vars

\* The presence side: the playback handlers read the directory and the rooms
\* but write neither, so leaving them out removes no directory, room or
\* presence-notification behaviour.
NextPresence == Lifecycle \/ PresenceEvents
SpecPresence == Init /\ [][NextPresence]_vars

\* The relay side: the presence events write no state the playback handlers
\* read (join_room re-joins the room joined at connect).
NextRelay == Lifecycle \/ RelayEvents
SpecRelay == Init /\ [][NextRelay]_vars

\* The lifecycle with refused connection attempts.
NextAdmission == Lifecycle \/ Admission
SpecAdmission == Init /\ [][NextAdmission]_vars

\* One viewing session: parent P1 and child C1 pair and connect once each, and
\* the parent plays and pauses videos of its own catalog; up to MaxSessionCmds
\* commands, any number of them with their catalog lookup still awaited.
SessionUsers == {"P1", "C1"}
SessionVideos == {"v1", "v2"}
NextSession ==
  \/ PairWithParent("C1", "P1")
  \/ \E u \in SessionUsers :
       u \notin DOMAIN activeConnections /\ Connect(u, Declaration(u))
  \/ /\ Len(cmdLog) < MaxSessionCmds
     /\ \E s \in connected, v \in SessionVideos : VideoAsyncBegin(s, "play", v)
  \/ /\ Len(cmdLog) < MaxSessionCmds
     /\ \E s \in connected, v \in SessionVideos : VideoSync(s, "pause", v)
  \/ \E c \in pending : VideoPlayDone(c)
SpecSession == Init /\ [][NextSession]_vars

\* The lifecycle and the presence events that carry a declaration, with
\* clients that declare anything.
NextHints ==
  \/ \E c \in Children, q \in Parents : PairWithParent(c, q)
  \/ \E u \in Users, h \in Declared : Connect(u, h)
  \/ \E s \in connected : Disconnect(s)
  \/ \E s \in connected, h \in Declared : JoinRoom(s, h)
  \/ \E s \in connected, h \in Declared : UserOnline(s, h)
  \/ \E s \in connected, h \in Declared : UserOffline(s, h)
SpecHints == Init /\ [][NextHints]_vars

\* The pairing endpoint under concurrent requests, over accounts none of
\* which is paired yet.
InitUnpaired ==
  /\ pairedWith = [u \in Users |-> NoUser]
  /\ sockets = <<>>
  /\ connected = {}
  /\ activeConnections = EmptyMap
  /\ parentChildRooms = EmptyMap
  /\ rooms = [r \in RoomIds |-> {}]
  /\ cmdLog = <<>>
  /\ pending = {}
  /\ playCount = [v \in Videos |-> 0]
  /\ emitted = <<>>
  /\ last = NoStep("init")
  /\ lastPresence = <<>>
  /\ handledAtConnect = <<>>
  /\ relay = [p \in Parents |-> Idle]
  /\ introduced = [v \in Videos |-> 0]
  /\ lastCmd = <<>>
  /\ pairRequests = {}
  /\ hook = InitialHook
NextPairing == PairingSteps
SpecPairing == InitUnpaired /\ [][NextPairing]_vars

\* The parent app's playlist hook on its own, under any change of its props.
NextHook == HookSteps
SpecHook == Init /\ [][NextHook]_vars

\* The relay side together with join_room.
NextJoin ==
  NextRelay \/ \E s \in connected : JoinRoom(s, Declaration(sockets[s].user))
SpecJoin == Init /\ [][NextJoin]_vars

\* The lifecycle, the child's reports and the events of the wrong role.
NextGate ==
  \/ Lifecycle
  \/ Gate
  \/ \E s \in connected, op \in ChildEvents : ChildReport(s, op)
SpecGate == Init /\ [][NextGate]_vars

\* ------------------------------------------------------------------ claims
Max(S) == CHOOSE x \in S : \A y \in S : x >= y
SocketsOf(u) == {s \in SocketIds : sockets[s].user = u}
LiveOf(u) == SocketsOf(u) \cap connected
CommandOps == SyncActions \cup AsyncKinds

\* The deliveries of the last step that are event ev about user n to a socket
\* of user u.
About(u, ev, n) ==
  {i \in DOMAIN emitted : /\ sockets[emitted[i].to].user = u
                          /\ emitted[i].ev = ev
                          /\ emitted[i].userName = n}

\* A newer connection of the same user has been inserted in the directory.
Superseded(s) ==
  \E s2 \in SocketIds : s2 > s /\ sockets[s2].user = sockets[s].user

\* C1: the directory holds at most one entry per user, and an entry's
\* socketId is that of the user's most recently completed connect.
C1_DirectoryLatest ==
  /\ DOMAIN activeConnections \subseteq Users
  /\ \A u \in DOMAIN activeConnections :
       /\ SocketsOf(u) # {}
       /\ activeConnections[u].socketId = Max(SocketsOf(u))

\* A user with two live connections and a directory entry.
C1_Witness ==
  \E u \in DOMAIN activeConnections :
    \E s1, s2 \in LiveOf(u) : s1 < s2

\* C2: a user is in the directory exactly when it has a live connection.
C2_DirectoryIffLive ==
  \A u \in Users : (u \in DOMAIN activeConnections) <=> (LiveOf(u) # {})

C4_PlayOnlyToRegisteredChild ==
  last.op = "play"
  => \A i \in DOMAIN emitted :
       emitted[i].ev = "video_control"
       => LET child == sockets[last.sock].pairedWith
          IN  /\ child \in DOMAIN activeConnections
              /\ emitted[i].to = activeConnections[child].socketId

\* C5: no message is ever delivered to a connection that a newer connection
\* of the same user has superseded.
C5_NoSendToSuperseded ==
  \A i \in DOMAIN emitted : ~Superseded(emitted[i].to)

\* C6: a parent command handled while the parent's child partner is absent
\* from the directory (at receipt and at the relay; the catalog accepting the
\* command) sends nothing to anyone.
C6_AbsentChildSilent ==
  (/\ last.op \in CommandOps
   /\ last.result = "ok"
   /\ last.absent
   /\ sockets[last.sock].pairedWith # NoUser)
  => emitted = <<>>

C8_ChildOfflineOnce ==
  (/\ last.op = "disconnect"
   /\ sockets[last.sock].role = "child"
   /\ sockets[last.sock].pairedWith # NoUser
   /\ LiveOf(sockets[last.sock].pairedWith) # {}
   /\ LiveOf(sockets[last.sock].user) = {})
  => LET C == sockets[last.sock].user
         P == sockets[last.sock].pairedWith
     IN  /\ Cardinality(About(P, "child_offline", C)) = 1
         /\ C \notin DOMAIN activeConnections
         /\ \A ps \in LiveOf(P) :
              LET reply == PairedStatusEmits(activeConnections, connected,
                                             ps, sockets[ps])
              IN  \A i \in DOMAIN reply : ~reply[i].isOnline

\* C9: the last presence notification a connected user received about its
\* partner agrees with the partner's liveness (stated for partners all of
\* whose connections were admitted with the pairing in place).
C9_PresenceAgrees ==
  \A s \in connected :
    (/\ sockets[s].pairedWith # NoUser
     /\ \A x \in SocketsOf(sockets[s].pairedWith) :
          sockets[x].pairedWith = sockets[s].user)
    => /\ lastPresence[s] = "online" => LiveOf(sockets[s].pairedWith) # {}
       /\ lastPresence[s] = "offline" => LiveOf(sockets[s].pairedWith) = {}

\* C10: every room family_<parentId> has at most one parent member
\* connection and at most one child member connection.
C10_TwoSlots ==
  \A r \in RoomIds :
    /\ Cardinality({s \in rooms[r] : sockets[s].role = "parent"}) <= 1
    /\ Cardinality({s \in rooms[r] : sockets[s].role = "child"}) <= 1

\* The deliveries of the last step that are event ev to socket s.
Received(s, ev) == {i \in DOMAIN emitted : /\ emitted[i].to = s
                                          /\ emitted[i].ev = ev}

\* The last step ran a parent command handler through to its relay.
Relayed == /\ last.op \in CommandOps
           /\ last.result \in {"ok", "increment_failed"}

\* C11: a join_room from a connection leaves every channel's membership
\* unchanged, and a relayed parent command is delivered exactly once to each
\* child connection that is a member of the parent's channel.
C11_JoinIdempotent ==
  [][/\ last'.op = "join_room" => rooms' = rooms
     /\ Relayed' =>
          \A s \in rooms'[RoomId(sockets'[last'.sock].user)] :
            sockets'[s].role = "child"
            => Cardinality(Received(s, "video_control")') = 1]_vars

\* A child connection that is a member of its channel has just sent
\* join_room again while a command of its parent awaits its relay.
C11_Witness ==
  /\ last.op = "join_room"
  /\ sockets[last.sock].role = "child"
  /\ sockets[last.sock].pairedWith # NoUser
  /\ last.sock \in rooms[RoomId(sockets[last.sock].pairedWith)]
  /\ \E c \in pending : sockets[c.sock].user = sockets[last.sock].pairedWith

\* The events whose handling is scoped to a pairing.
PairingScopedOps ==
  CommandOps \cup {"join_room", "user_offline", "child_paired_success",
                   "video_control_ack", "playback_status"}

\* C12: a connection whose identity has no partner is in no channel, its
\* connect leaves its user in the directory, and no pairing-scoped event it
\* sends makes the server deliver a message to another connection.
C12_UnpairedIsInert ==
  /\ \A s \in connected :
       sockets[s].pairedWith = NoUser => \A r \in RoomIds : s \notin rooms[r]
  /\ (last.op = "connect" /\ sockets[last.sock].pairedWith = NoUser)
     => /\ sockets[last.sock].user \in DOMAIN activeConnections
        /\ activeConnections[sockets[last.sock].user].socketId = last.sock
  /\ (last.op \in PairingScopedOps /\ sockets[last.sock].pairedWith = NoUser)
     => \A i \in DOMAIN emitted : emitted[i].to = last.sock

\* The directory, the room bookkeeping and the channel memberships.
RelayState == <<activeConnections, parentChildRooms, rooms>>

\* C13: a video_play for a video the issuing parent did not upload ends with
\* one error event to the issuing connection (none if it has closed
\* meanwhile), no video_control to anyone, the play counters unchanged and
\* the directory, room bookkeeping and channel memberships unchanged.
C13_DeniedPlay ==
  [][\A c \in pending :
       (/\ c.kind = "play"
        /\ c \notin pending'
        /\ UploadedBy(c.videoId) # sockets[c.sock].user)
       => /\ Len(emitted') = IF c.sock \in connected THEN 1 ELSE 0
          /\ \A i \in DOMAIN emitted' :
               emitted'[i].ev = "error" /\ emitted'[i].to = c.sock
          /\ playCount' = playCount
          /\ RelayState' = RelayState]_vars

\* A video_play was just denied to a connected parent whose child is a
\* member of the parent's channel.
C13_Witness ==
  /\ last.op = "play"
  /\ last.result = "denied"
  /\ last.sock \in connected
  /\ \E s \in rooms[RoomId(sockets[last.sock].user)] :
       sockets[s].role = "child"

\* C14: every video_play ends either forwarded with no error event to the
\* parent (also when the play-count increment fails after the relay), or not
\* forwarded with an error event to the parent.
C14_FireAndForget ==
  last.op = "play"
  => LET err == \E i \in DOMAIN emitted : emitted[i].ev = "error"
     IN  /\ Relayed => ~err
         /\ (~Relayed /\ last.sock \in connected) => err

\* C15: a connection attempt with no token, a token that does not verify or
\* a token of a user that does not exist is refused, and the refusal changes
\* neither the directory, the room bookkeeping, the channel memberships nor
\* the set of connections, and delivers nothing to anyone.
C15_RefusedNoEffect ==
  [][/\ \A tok \in {"missing", "forged", "orphan"} :
          Authenticate(tok) = NoUser
     /\ last'.op = "auth_failed"
        => /\ emitted' = <<>>
           /\ RelayState' = RelayState
           /\ <<sockets, connected, lastPresence>>'
                = <<sockets, connected, lastPresence>>]_vars

\* An attempt was just refused while a pair is connected and in its room.
C15_Witness ==
  /\ last.op = "auth_failed"
  /\ \E u \in DOMAIN activeConnections :
       /\ pairedWith[u] \in DOMAIN activeConnections
       /\ rooms[RoomId(u)] # {}

\* C16: every get_paired_status from a connected user U, paired or not, is
\* answered with exactly one paired_status, delivered to U's connection
\* alone, whose isOnline tells whether U's partner is in the directory and
\* whose last-seen timestamp is the partner's connectedAt (null if absent).
C16_PairedStatusReply ==
  last.op = "get_paired_status"
  => LET partner == sockets[last.sock].pairedWith
         online == partner \in DOMAIN activeConnections
     IN  /\ Len(emitted) = 1
         /\ emitted[1].ev = "paired_status"
         /\ emitted[1].to = last.sock
         /\ emitted[1].isOnline = online
         /\ emitted[1].lastSeen = IF online
                                  THEN activeConnections[partner].connectedAt
                                  ELSE NoTime

\* C17: a video_play by a parent for a video it uploaded, completing while
\* its child has a live connection, delivers to the child exactly one
\* video_control, with action play, the requested videoId, the requested
\* currentTime (0 when omitted) and the video's descriptor, and raises the
\* play count of that video by exactly 1.
C17_PlayDelivered ==
  [][\A c \in pending :
       LET child == sockets[c.sock].pairedWith
           got == {i \in DOMAIN emitted' :
                     /\ sockets[emitted'[i].to].user = child
                     /\ emitted'[i].ev = "video_control"}
       IN  (/\ c.kind = "play"
            /\ c \notin pending'
            /\ last'.result = "ok"
            /\ child # NoUser
            /\ LiveOf(child) # {})
           => /\ Cardinality(got) = 1
              /\ \A i \in got :
                   /\ emitted'[i].action = "play"
                   /\ emitted'[i].videoId = c.videoId
                   /\ emitted'[i].currentTime =
                        (IF c.currentTime = NoTime THEN 0 ELSE c.currentTime)
                   /\ emitted'[i].video = Descriptor(c.videoId)
              /\ playCount'[c.videoId] = playCount[c.videoId] + 1]_vars

\* The non-empty catalogs of at most MaxCatalog distinct videos, in every
\* order.
Catalogs ==
  {vs \in UNION {[1..n -> Videos] : n \in 1..MaxCatalog} :
     \A i, j \in DOMAIN vs : vs[i] = vs[j] => i = j}

\* The video after / before position i of vs, cyclically.
After(vs, i) == vs[(i % Len(vs)) + 1]
Before(vs, i) == vs[((i + Len(vs) - 2) % Len(vs)) + 1]

\* C18: for every non-empty catalog and every current video in it,
\* video_next resolves to the video following it (the first after the last)
\* and video_previous to the video preceding it (the last before the
\* first); the video_control relayed for the issuing parent's catalog
\* carries that video.
C18_CyclicStep ==
  last.op \in {"next", "previous"}
  => /\ \A vs \in Catalogs : \A i \in DOMAIN vs :
          /\ NextVideo(vs, vs[i]) = After(vs, i)
          /\ PrevVideo(vs, vs[i]) = Before(vs, i)
     /\ LET vs == Catalog(sockets[last.sock].user)
        IN  \A i \in DOMAIN vs :
              (last.result = "ok" /\ last.req.videoId = vs[i])
              => \A k \in DOMAIN emitted :
                   /\ emitted[k].ev = "video_control"
                   /\ emitted[k].videoId = IF last.op = "next"
                                           THEN After(vs, i)
                                           ELSE Before(vs, i)

\* The child was just sent the first video of a three-video catalog for a
\* video_next issued at its last video.
C18_Witness ==
  /\ last.op = "next"
  /\ last.result = "ok"
  /\ LET vs == Catalog(sockets[last.sock].user)
     IN  /\ Len(vs) = 3
         /\ last.req.videoId = vs[3]
         /\ \E k \in DOMAIN emitted :
              /\ sockets[emitted[k].to].role = "child"
              /\ emitted[k].videoId = vs[1]

\* C19: a video_next or video_previous of a parent none of whose videos is
\* active, its catalog query having answered, delivers nothing to anyone and
\* changes neither the play counters, the directory, the room bookkeeping,
\* the channel memberships nor the pairings.
C19_EmptyCatalogSilent ==
  [][\A c \in pending :
       (/\ c.kind \in {"next", "previous"}
        /\ c \notin pending'
        /\ last'.result # "lookup_failed"
        /\ \A v \in Videos :
             UploadedBy(v) = sockets[c.sock].user => ~IsActive(v))
       => /\ emitted' = <<>>
          /\ <<playCount, pairedWith, RelayState>>'
               = <<playCount, pairedWith, RelayState>>]_vars

\* A connected parent that owns only an inactive video, its child being a
\* member of its channel, has just had a video_next or video_previous
\* resolved.
C19_Witness ==
  /\ last.op \in {"next", "previous"}
  /\ last.result = "empty"
  /\ last.sock \in connected
  /\ \E v \in Videos : UploadedBy(v) = sockets[last.sock].user
  /\ \E s \in rooms[RoomId(sockets[last.sock].user)] :
       sockets[s].role = "child"

ChildReportOps == {"video_control_ack", "playback_status"}

\* C20: a video_control_ack / playback_status from a child is forwarded as
\* one child_status / child_playback_status, carrying the reported fields
\* and the child's name, to the connection registered in the directory for
\* the child's parent and to no other; nothing is sent when the parent has
\* no directory entry; and the directory, the room bookkeeping and the
\* channel memberships are unchanged.
C20_ChildReportsForwarded ==
  [][last'.op \in ChildReportOps
     => LET id == sockets[last'.sock]
            parent == id.pairedWith
        IN  /\ RelayState' = RelayState
            /\ IF parent # NoUser /\ parent \in DOMAIN activeConnections
               THEN /\ Len(emitted') = 1
                    /\ emitted'[1].to = activeConnections[parent].socketId
                    /\ emitted'[1].ev = (IF last'.op = "video_control_ack"
                                         THEN "child_status"
                                         ELSE "child_playback_status")
                    /\ emitted'[1].userName = id.user
                    /\ emitted'[1].action = last'.req.action
                    /\ emitted'[1].videoId = last'.req.videoId
                    /\ emitted'[1].currentTime = last'.req.currentTime
               ELSE emitted' = <<>>]_vars

\* A child's report was just forwarded while its parent holds two open
\* connections.
C20_Witness ==
  /\ last.op \in ChildReportOps
  /\ emitted # <<>>
  /\ \E s1, s2 \in LiveOf(sockets[last.sock].pairedWith) : s1 # s2

\* C21: a parent command event sent by a child connection, and a
\* video_control_ack or playback_status sent by a parent connection, delivers
\* nothing to any connection and changes no state of the server.
C21_RoleGated ==
  [][(/\ last'.sock \in DOMAIN sockets'
      /\ \/ /\ sockets'[last'.sock].role = "child"
            /\ \/ last'.op \in ParentEvents
               \/ last'.op \in {"await_" \o k : k \in AsyncKinds}
               \/ last'.op = "no_listener"
         \/ /\ sockets'[last'.sock].role = "parent"
            /\ \/ last'.op \in ChildEvents
               \/ last'.op = "no_listener")
     => /\ emitted' = <<>>
        /\ <<pairedWith, sockets, connected, RelayState, cmdLog, pending,
             playCount>>'
            = <<pairedWith, sockets, connected, RelayState, cmdLog, pending,
                playCount>>]_vars

\* A parent connection whose child is in the directory has just sent a
\* child's report event.
C21_Witness ==
  /\ last.op = "no_listener"
  /\ last.req.action \in ChildEvents
  /\ sockets[last.sock].role = "parent"
  /\ sockets[last.sock].pairedWith \in DOMAIN activeConnections

\* C22: a socket is handed the commands of one type in the order the parent
\* issued them: a video_control delivered to a socket whose last delivered
\* video_control carried the same action is a later command than that one.
C22_SameTypeInOrder ==
  [][\A i \in DOMAIN emitted' :
       LET m == emitted'[i]
       IN  (/\ m.ev = "video_control"
            /\ m.to \in DOMAIN lastCmd
            /\ lastCmd[m.to].action = m.action)
           => lastCmd[m.to].cmd < m.cmd]_vars

\* C23: a relayed video_play for the video paused on the parent's channel (a
\* resume) hands the child a play command with no video descriptor, and a
\* relayed video_play carries a descriptor only when it brings in a video
\* other than the channel's.
C23_ResumeWithoutDescriptor ==
  [][\A c \in pending :
       (/\ c \notin pending'
        /\ last'.op = "play"
        /\ last'.result \in {"ok", "increment_failed"})
       => LET ch == relay[sockets[c.sock].user]
          IN  \A i \in DOMAIN emitted' :
                emitted'[i].ev = "video_control"
                => /\ IsResume(ch, c.videoId)
                      => emitted'[i].video = NoDescriptor
                   /\ emitted'[i].video # NoDescriptor
                      => IsNewMedia(ch, c.videoId)]_vars

\* C24: the play counter of a video moves exactly when a relayed video_play
\* brings that video in as new media: every step whose catalog write did not
\* fail adds to each video's counter what it adds to the number of plays that
\* introduced the video, so a resume, a denied video_play and a pause add
\* nothing.
C24_CounterCountsNewMedia ==
  [][last'.result # "increment_failed"
     => \A v \in Videos :
          playCount'[v] - playCount[v] = introduced'[v] - introduced[v]]_vars

\* C25: a video_control relayed for a video_next or video_previous carries
\* the adjacent video's id and descriptor, and whatever the child is showing,
\* handling the command leaves the child's current video that adjacent video.
C25_StepStartsAdjacent ==
  (last.op \in {"next", "previous"} /\ last.result = "ok")
  => \A i \in DOMAIN emitted :
       emitted[i].ev = "video_control"
       => /\ emitted[i].video = Descriptor(emitted[i].videoId)
          /\ \A cur \in ChildVideos :
               HandleControl(cur, emitted[i]) = emitted[i].video

\* C26: when a child whose connection was admitted before it was paired emits
\* child_paired_success while its parent holds a registered connection that
\* was also admitted before the pairing, the parent's connection is handed
\* pairing_success and child_online about the child and the child's
\* connection parent_online about the parent.
C26_PairingAnnounced ==
  LET s == last.sock
  IN  (/\ last.op = "child_paired_success"
       /\ s \in connected
       /\ sockets[s].role = "child"
       /\ sockets[s].pairedWith = NoUser
       /\ pairedWith[sockets[s].user] \in DOMAIN activeConnections
       /\ LET ps == activeConnections[pairedWith[sockets[s].user]].socketId
          IN  ps \in connected /\ sockets[ps].pairedWith = NoUser)
      => LET c == sockets[s].user
             p == pairedWith[c]
             ps == activeConnections[p].socketId
         IN  /\ \E i \in DOMAIN emitted :
                  /\ emitted[i].ev = "child_online"
                  /\ emitted[i].to = ps
                  /\ emitted[i].userName = c
             /\ \E i \in DOMAIN emitted :
                  emitted[i].ev = "pairing_success" /\ emitted[i].to = ps
             /\ \E i \in DOMAIN emitted :
                  /\ emitted[i].ev = "parent_online"
                  /\ emitted[i].to = s
                  /\ emitted[i].userName = p

\* C27: what a client declares about itself decides nothing: the identity a
\* connection is given is the one its credential resolves to, the room a
\* join_room joins and the messages a connect, a user_online and a
\* user_offline deliver are those computed from that identity and the
\* server's state alone, whatever the handshake or payload declared.
C27_RoutingFromCredential ==
  [][LET s == last'.sock
     IN  /\ last'.op = "connect"
            => /\ \E u \in Users :
                    /\ u \in DOMAIN activeConnections'
                    /\ activeConnections'[u].socketId = s
                    /\ sockets'[s] = [user |-> u, role |-> Role(u),
                                      pairedWith |-> pairedWith[u]]
               /\ rooms' = Join(rooms, s, sockets'[s])
               /\ emitted' = PairingEmits(activeConnections', connected',
                                          sockets', s, sockets'[s])
         /\ last'.op = "join_room"
            => rooms' = Join(rooms, s, sockets[s]) /\ emitted' = <<>>
         /\ last'.op = "user_online"
            => /\ emitted' = UserOnlineEmits(activeConnections, connected, s,
                                             sockets[s])
               /\ rooms' = rooms
         /\ last'.op = "user_offline"
            => /\ emitted' = OfflineEmits(activeConnections, connected,
                                          sockets[s])
               /\ rooms' = rooms]_vars

\* A join_room whose payload named another user and another family than the
\* socket's own was just handled: the socket is in its own room and not in
\* the room of the family it declared.
C27_Witness ==
  /\ last.op = "join_room"
  /\ last.declared # NoDeclared
  /\ last.sock \in connected
  /\ LET s == last.sock
         d == last.declared
         declaredRoom == RoomId(IF d.role = "parent" THEN d.userId
                                ELSE d.pairedWith)
     IN  /\ d.userId # sockets[s].user
         /\ s \notin rooms[declaredRoom]
         /\ \E r \in RoomIds : s \in rooms[r]

\* C28: when a paired user connects while its partner has no directory entry,
\* the connect delivers nothing (no presence notification to anyone, no error
\* to the user), and the user is in the directory under the new socket, which
\* is a member of the family's room.
C28_PartnerAbsentConnect ==
  LET s == last.sock
  IN  (/\ last.op = "connect"
       /\ sockets[s].pairedWith # NoUser
       /\ sockets[s].pairedWith \notin DOMAIN activeConnections)
      => /\ emitted = <<>>
         /\ s \in connected
         /\ sockets[s].user \in DOMAIN activeConnections
         /\ activeConnections[sockets[s].user].socketId = s
         /\ \A r \in JoinedRoom(sockets[s]) : s \in rooms[r]
         /\ JoinedRoom(sockets[s]) # {}

\* A paired child just connected while its parent has no directory entry.
C28_Witness ==
  /\ last.op = "connect"
  /\ sockets[last.sock].role = "child"
  /\ sockets[last.sock].pairedWith # NoUser
  /\ sockets[last.sock].pairedWith \notin DOMAIN activeConnections
  /\ last.sock \in rooms[RoomId(sockets[last.sock].pairedWith)]

\* C29: in every connect the directory insert comes first: at each stage of
\* the connection handler at which the new socket is a member of a room or a
\* notification has been emitted, the directory already maps the user to the
\* new socket; and in every state the members of the rooms are connected
\* sockets, each of which went through that handler.
C29_InsertBeforeJoin ==
  [][/\ last'.op = "connect"
        => LET s == last'.sock
               u == sockets'[s].user
               stages == ConnectStages(u, last'.declared)
           IN  /\ \A i \in DOMAIN stages :
                    (\/ \E r \in RoomIds : s \in stages[i].rooms[r]
                     \/ stages[i].emitted # <<>>)
                    => /\ u \in DOMAIN stages[i].ac
                       /\ stages[i].ac[u].socketId = s
               /\ activeConnections' = stages[Len(stages)].ac
               /\ rooms' = stages[Len(stages)].rooms
               /\ emitted' = stages[Len(stages)].emitted
     /\ \A r \in RoomIds : rooms'[r] \subseteq connected']_vars

\* A connect just put its user in the directory, joined the family room and
\* notified both sides.
C29_Witness ==
  /\ last.op = "connect"
  /\ emitted # <<>>
  /\ \E r \in RoomIds : last.sock \in rooms[r]
  /\ activeConnections[sockets[last.sock].user].socketId = last.sock

\* C30: a user_online from a connected socket is answered with exactly one
\* presence_confirmed, to that socket, whose pairedDevicesOnline is 1 exactly
\* when the socket's identity has a partner with a directory entry and whose
\* totalPairedDevices is 1 exactly when it has a partner; the partner's
\* registered socket is handed one online notification about the user exactly
\* when pairedDevicesOnline is 1, and nothing else is sent.
C30_PresenceConfirmed ==
  last.op = "user_online"
  => LET s == last.sock
         id == sockets[s]
         total == IF id.pairedWith # NoUser THEN 1 ELSE 0
         online == IF id.pairedWith # NoUser
                      /\ id.pairedWith \in DOMAIN activeConnections
                   THEN 1 ELSE 0
         conf == {i \in DOMAIN emitted : emitted[i].ev = "presence_confirmed"}
         notes == {i \in DOMAIN emitted : IsOnlineEv(emitted[i].ev)}
     IN  /\ Cardinality(conf) = 1
         /\ \A i \in conf :
              /\ emitted[i].to = s
              /\ emitted[i].pairedDevicesOnline = online
              /\ emitted[i].totalPairedDevices = total
         /\ Cardinality(notes) = online
         /\ \A i \in notes :
              /\ emitted[i].to = activeConnections[id.pairedWith].socketId
              /\ emitted[i].ev = OnlineEvent(id.role)
              /\ emitted[i].userName = id.user
         /\ Len(emitted) = 1 + online

\* A user_online of a paired user whose partner is registered was just
\* answered: the partner was notified and the counts are 1 and 1.
C30_Witness ==
  /\ last.op = "user_online"
  /\ sockets[last.sock].pairedWith \in DOMAIN activeConnections
  /\ \E i \in DOMAIN emitted : IsOnlineEv(emitted[i].ev)
  /\ \E i \in DOMAIN emitted :
       /\ emitted[i].ev = "presence_confirmed"
       /\ emitted[i].to = last.sock
       /\ emitted[i].pairedDevicesOnline = 1
       /\ emitted[i].totalPairedDevices = 1

\* C31: whenever a parent_offline or child_offline about a user is delivered,
\* by a disconnect or by a user_offline, that user has no directory entry, so
\* the get_paired_status of the notified socket answers isOnline false.
C31_OfflineMeansAbsent ==
  \A i \in DOMAIN emitted :
    IsOfflineEv(emitted[i].ev)
    => /\ emitted[i].userName \notin DOMAIN activeConnections
       /\ LET t == emitted[i].to
              reply == PairedStatusEmits(activeConnections, connected, t,
                                         sockets[t])
          IN  \A j \in DOMAIN reply : ~reply[j].isOnline

\* C32: every delivered video_control, parent_online and parent_offline goes
\* to a socket whose identity is a child, every delivered child_online,
\* child_offline, child_status, child_playback_status and pairing_success to
\* a socket whose identity is a parent, and no video_control goes to a socket
\* of the user whose command it relays.
C32_DirectionTyped ==
  \A i \in DOMAIN emitted :
    LET m == emitted[i]
    IN  /\ m.ev \in {"video_control", "parent_online", "parent_offline"}
           => sockets[m.to].role = "child"
        /\ m.ev \in {"child_online", "child_offline", "child_status",
                     "child_playback_status", "pairing_success"}
           => sockets[m.to].role = "parent"
        /\ m.ev = "video_control"
           => sockets[m.to].user # sockets[last.sock].user

\* C33: a command whose catalog lookup completes after the issuing parent's
\* socket has disconnected is not relayed to a socket whose latest presence
\* notification is the parent_offline of that disconnect.
C33_NoRelayForGoneParent ==
  [][\A c \in pending :
       (c \notin pending' /\ c.sock \notin connected)
       => \A i \in DOMAIN emitted' :
            emitted'[i].ev = "video_control"
            => lastPresence[emitted'[i].to] # "offline"]_vars

\* getConnectionStats: the two counts it reports.
GetConnectionStats ==
  [totalConnections |-> Cardinality(DOMAIN activeConnections),
   activeRooms |-> Cardinality(DOMAIN parentChildRooms)]

\* The users registered as a parent with a partner: the identity of the
\* directory entry's connection is a parent's and has pairedWith set.
PairedParentsOnline ==
  {u \in DOMAIN activeConnections :
     LET id == sockets[activeConnections[u].socketId]
     IN  id.role = "parent" /\ id.pairedWith # NoUser}

\* C34: parentChildRooms has a key for a user exactly when the user is in the
\* directory as a parent with a partner, the value stored is family_<user>,
\* and getConnectionStats reports the number of such users as activeRooms and
\* the number of directory entries as totalConnections.
C34_RoomBookkeeping ==
  /\ DOMAIN parentChildRooms = PairedParentsOnline
  /\ \A u \in DOMAIN parentChildRooms : parentChildRooms[u] = RoomId(u)
  /\ GetConnectionStats.activeRooms = Cardinality(PairedParentsOnline)
  /\ GetConnectionStats.totalConnections
       = Cardinality(DOMAIN activeConnections)

\* A paired parent just disconnected and has no key any more, while another
\* paired parent is registered and has its key.
C34_Witness ==
  /\ last.op = "disconnect"
  /\ sockets[last.sock].role = "parent"
  /\ sockets[last.sock].pairedWith # NoUser
  /\ sockets[last.sock].user \notin DOMAIN parentChildRooms
  /\ \E u \in DOMAIN parentChildRooms : u \in PairedParentsOnline

\* The videos of a catalog.
InCatalog(videos) == {videos[i] : i \in DOMAIN videos}

\* C35: a video_next or video_previous whose currentVideoId is not in the
\* parent's non-empty catalog, and whose catalog query did not fail, resolves
\* to the first, respectively the last, video of the ordering: that is the
\* video every relayed video_control names, and no error is emitted.
C35_UnknownCurrentVideo ==
  LET videos == Catalog(sockets[last.sock].user)
      cur == last.req.videoId
  IN  (/\ last.op \in {"next", "previous"}
       /\ last.result # "lookup_failed"
       /\ videos # <<>>
       /\ cur \notin InCatalog(videos))
      => LET target == IF last.op = "next" THEN videos[1]
                       ELSE videos[Len(videos)]
         IN  /\ last.result = "ok"
             /\ NextVideo(videos, cur) = videos[1]
             /\ PrevVideo(videos, cur) = videos[Len(videos)]
             /\ \A i \in DOMAIN emitted :
                  /\ emitted[i].ev = "video_control"
                  /\ emitted[i].action = last.op
                  /\ emitted[i].videoId = target

\* A video_next naming a video that is not in the parent's catalog was just
\* relayed to the child with the first video of the catalog.
C35_Witness ==
  /\ last.op = "next"
  /\ last.result = "ok"
  /\ Catalog(sockets[last.sock].user) # <<>>
  /\ last.req.videoId \notin InCatalog(Catalog(sockets[last.sock].user))
  /\ \E i \in DOMAIN emitted :
       /\ emitted[i].ev = "video_control"
       /\ sockets[emitted[i].to].role = "child"
       /\ emitted[i].videoId = Catalog(sockets[last.sock].user)[1]

\* C36: once no pairWithParent request is in flight, pairing is symmetric and
\* exclusive: a user's partner has that user as its partner, so no parent is
\* the partner of two children and no child of two parents.
C36_PairingExclusive ==
  pairRequests = {}
  => /\ \A a \in Users :
          pairedWith[a] # NoUser => pairedWith[pairedWith[a]] = a
     /\ \A p \in Parents :
          Cardinality({c \in Children : pairedWith[c] = p}) <= 1

\* C37: an operation of the playlist hook emits nothing while canControl is
\* false, and a playVideo that replaces a current video emits video_stop for
\* the current video and then video_play for the new one.
C37_HookGuarded ==
  [][hook' # hook
     => /\ ~CanControl(hook) => hook'.out = <<>>
        /\ (/\ hook'.op = "playVideo"
            /\ CanControl(hook)
            /\ hook.currentVideo # NoVideo)
           => hook'.out = <<Emit("video_stop", hook.currentVideo),
                            Emit("video_play", hook'.currentVideo)>>]_vars

\* C38: after the child's handler has run on a delivered video_control with
\* action play, the child's current video is the video the command carries:
\* loaded if it was another one, kept if it was already the current one, also
\* when the previous command was a play of a different video.
C38_PlayLoadsNewVideo ==
  [][\A i \in DOMAIN emitted' :
       LET m == emitted'[i]
       IN  (/\ m.ev = "video_control"
            /\ m.action = "play"
            /\ m.video # NoDescriptor
            /\ m.to \in DOMAIN lastCmd
            /\ lastCmd'[m.to].cmd = m.cmd
            /\ lastCmd[m.to].cmd # m.cmd)
           => lastCmd'[m.to].video = m.video]_vars

====
